---- MODULE Spec2Model ----
(***************************************************************************)
(* FatPy: equivalent-stress criteria and mean-stress corrections.          *)
(*                                                                         *)
(* Numbers.  The program computes in IEEE float64 (numpy).  The model uses *)
(* a decimal fixed-point grid: the integer x stands for the real x/Scale.  *)
(* Every operation rounds its exact result to the nearest grid value, a    *)
(* result beyond MaxFinite overflows to an infinity, and invalid           *)
(* operations give NaN, as numpy's float64 operations do (they warn, they  *)
(* do not raise).                                                          *)
(***************************************************************************)
EXTENDS Integers, Sequences, FiniteSets, TLC

VARIABLES
    fe,      \* the FEModel instance, or NoFE before construction
    fe0,     \* history: the FEModel as __post_init__ left it
    mat,     \* the MaterialProperties instance, or NoMat
    calls,   \* history: number of calls that returned, per mutating operation
    args,    \* the arguments of the last call
    op,      \* the last operation called
    ret      \* what the last call returned or raised

vars == <<fe, fe0, mat, calls, args, op, ret>>

(* Bounds of the model *)

Scale == 100
MaxFinite == 46000
MaxPoints == 2
MaxCalls == 2

(* float64 values and numpy's arithmetic on them *)

PosInf == MaxFinite + 1
NegInf == -PosInf
NaN == MaxFinite + 2

Num(k) == k * Scale

IsNaN(x) == x = NaN
IsInf(x) == x = PosInf \/ x = NegInf
IsFinite(x) == ~IsNaN(x) /\ ~IsInf(x)

Abs(x) == IF x < 0 THEN -x ELSE x
Sgn(x) == IF x > 0 THEN 1 ELSE IF x < 0 THEN -1 ELSE 0

\* a finite exact result, overflowing to an infinity
Clamp(x) == IF x > MaxFinite THEN PosInf ELSE IF x < -MaxFinite THEN NegInf ELSE x

\* a / b rounded to the nearest integer (ties away from zero), b # 0
RoundDiv(a, b) ==
    LET q == Abs(a) \div Abs(b)
        r == Abs(a) % Abs(b)
        m == IF 2 * r >= Abs(b) THEN q + 1 ELSE q
    IN  Sgn(a) * Sgn(b) * m

FNeg(a) == IF IsNaN(a) THEN NaN ELSE -a

FAdd(a, b) ==
    IF IsNaN(a) \/ IsNaN(b) THEN NaN
    ELSE IF IsInf(a) /\ IsInf(b) THEN (IF a = b THEN a ELSE NaN)
    ELSE IF IsInf(a) THEN a
    ELSE IF IsInf(b) THEN b
    ELSE Clamp(a + b)

FSub(a, b) == FAdd(a, FNeg(b))

FMul(a, b) ==
    IF IsNaN(a) \/ IsNaN(b) THEN NaN
    ELSE IF IsInf(a) \/ IsInf(b)
         THEN (IF a = 0 \/ b = 0 THEN NaN
               ELSE IF Sgn(a) * Sgn(b) > 0 THEN PosInf ELSE NegInf)
    ELSE Clamp(RoundDiv(a * b, Scale))

FDiv(a, b) ==
    IF IsNaN(a) \/ IsNaN(b) THEN NaN
    ELSE IF IsInf(a) THEN (IF IsInf(b) THEN NaN
                           ELSE IF Sgn(a) * (IF b < 0 THEN -1 ELSE 1) > 0
                                THEN PosInf ELSE NegInf)
    ELSE IF IsInf(b) THEN 0
    ELSE IF b = 0 THEN (IF a = 0 THEN NaN ELSE IF a > 0 THEN PosInf ELSE NegInf)
    ELSE Clamp(RoundDiv(a * Scale, b))

RECURSIVE ISqrtBetween(_, _, _)
\* the largest r in lo..hi with r * r <= n, given lo * lo <= n
ISqrtBetween(n, lo, hi) ==
    IF lo >= hi THEN lo
    ELSE LET mid == (lo + hi + 1) \div 2
         IN  IF mid * mid <= n THEN ISqrtBetween(n, mid, hi)
             ELSE ISqrtBetween(n, lo, mid - 1)

\* np.sqrt: NaN for a negative argument
FSqrt(a) ==
    IF IsNaN(a) THEN NaN
    ELSE IF a = PosInf THEN PosInf
    ELSE IF a < 0 THEN NaN
    ELSE LET n == a * Scale
             r == ISqrtBetween(n, 0, MaxFinite)
         IN  IF n - r * r > r THEN r + 1 ELSE r

\* np.sign
FSign(a) == IF IsNaN(a) THEN NaN ELSE Num(Sgn(a))

\* x <= 0 on one float64: False for NaN
FLe0(x) == ~IsNaN(x) /\ x <= 0

\* x < 0 on one float64: False for NaN
FLt0(x) == ~IsNaN(x) /\ x < 0

(* numpy values: a 0-d scalar (dim 0) or a 1-d array (dim 1), or the       *)
(* exception a call raised                                                 *)

Scalar(x) == [ok |-> TRUE, err |-> "", dim |-> 0, data |-> <<x>>]
Array(s) == [ok |-> TRUE, err |-> "", dim |-> 1, data |-> s]
Raise(e) == [ok |-> FALSE, err |-> e, dim |-> 0, data |-> <<>>]
NoRet == [ok |-> TRUE, err |-> "none", dim |-> 0, data |-> <<>>]
\* a call that returned None
Returned == [ok |-> TRUE, err |-> "", dim |-> 0, data |-> <<>>]

Size(a) == Len(a.data)

\* element-wise result with the shape numpy broadcasting gives two operands
Shaped(a, b, s) ==
    [ok |-> TRUE, err |-> "", dim |-> IF a.dim > b.dim THEN a.dim ELSE b.dim, data |-> s]

\* operand i of a broadcast: a size-1 operand is repeated
At(a, i) == IF Size(a) = 1 THEN a.data[1] ELSE a.data[i]

BroadcastLen(a, b) == IF Size(a) > Size(b) THEN Size(a) ELSE Size(b)
Broadcastable(a, b) == Size(a) = Size(b) \/ Size(a) = 1 \/ Size(b) = 1

\* bool(cond) of a boolean ndarray, as `if cond:` takes it: the truth value of
\* an array with more than one element is ambiguous (ValueError)
Ambiguous(a) == Size(a) > 1

(* data_parsing/material.py *)

None == MaxFinite + 3

NoMat == [name |-> "none", ultimate_tensile_strength |-> None, yield_strength |-> None,
          elastic_modulus |-> None, poisson_ratio |-> None,
          fatigue_strength_coefficient |-> None, shear_modulus |-> None]

\* the dataclass-generated __init__: the fields as given
MaterialFields(uts, ys, e, nu, fsc) ==
    [name |-> "steel", ultimate_tensile_strength |-> uts, yield_strength |-> ys,
     elastic_modulus |-> e, poisson_ratio |-> nu,
     fatigue_strength_coefficient |-> fsc, shear_modulus |-> None]

\* variant: __post_init__ without the check of poisson_ratio
MaterialPostInitDropsPoisson(m) ==
    IF m.ultimate_tensile_strength <= 0 THEN "ValueError"
    ELSE IF m.yield_strength <= 0 THEN "ValueError"
    ELSE IF m.elastic_modulus <= 0 THEN "ValueError"
    ELSE ""

\* MaterialProperties.__post_init__: the ValueError it raises, or "" when it returns
MaterialPostInit(m) ==
    IF m.ultimate_tensile_strength <= 0 THEN "ValueError"
    ELSE IF m.yield_strength <= 0 THEN "ValueError"
    ELSE IF m.elastic_modulus <= 0 THEN "ValueError"
    ELSE IF m.poisson_ratio <= 0 THEN "ValueError"
    ELSE ""

\* MaterialProperties.calc_shear_modulus: the instance after the call
calc_shear_modulus(m) ==
    IF m.shear_modulus = None
    THEN [m EXCEPT !.shear_modulus =
              FDiv(m.elastic_modulus, FMul(Num(2), FAdd(Num(1), m.poisson_ratio)))]
    ELSE m

(* utilities/stress_correction.py *)

\* stress_amplitude / (1 - mean_stress / UTS) on one element
GoodmanFormula(a, m, uts) == FDiv(a, FSub(Num(1), FDiv(m, uts)))

\* stress_amplitude / (1 - (mean_stress / UTS) ** 2) on one element
GerberFormula(a, m, uts) ==
    LET r == FDiv(m, uts) IN FDiv(a, FSub(Num(1), FMul(r, r)))

\* np.sqrt(max_stress * stress_amplitude) on one element
SWTFormula(a, m) == FSqrt(FMul(FAdd(m, a), a))

\* stress_amplitude / (1 - mean_stress / fatigue_strength_coefficient)
MorrowFormula(a, m, fsc) == FDiv(a, FSub(Num(1), FDiv(m, fsc)))

\* GoodmanCorrection.eq_stress_amplitude: np.where selects per element
GoodmanCorrection(amp, mean, material) ==
    IF ~Broadcastable(amp, mean) THEN Raise("ValueError")
    ELSE Shaped(amp, mean,
            [i \in 1..BroadcastLen(amp, mean) |->
                IF FLe0(At(mean, i)) THEN At(amp, i)
                ELSE GoodmanFormula(At(amp, i), At(mean, i),
                                    material.ultimate_tensile_strength)])

\* GerberCorrection.eq_stress_amplitude: `if mean_stress <= 0` takes the truth
\* value of the whole comparison
GerberCorrection(amp, mean, material) ==
    IF Ambiguous(mean) THEN Raise("ValueError")
    ELSE IF FLe0(mean.data[1]) THEN amp
    ELSE Shaped(amp, mean,
            [i \in 1..Size(amp) |->
                GerberFormula(amp.data[i], mean.data[1],
                              material.ultimate_tensile_strength)])

\* SWTCorrection.eq_stress_amplitude: the floor is on max_stress = mean + amplitude
SWTCorrection(amp, mean, material) ==
    IF ~Broadcastable(amp, mean) THEN Raise("ValueError")
    ELSE IF BroadcastLen(amp, mean) > 1 THEN Raise("ValueError")
    ELSE IF FLe0(FAdd(mean.data[1], amp.data[1])) THEN amp
    ELSE Shaped(amp, mean, <<SWTFormula(amp.data[1], mean.data[1])>>)

\* MorrowCorrection.eq_stress_amplitude: dividing by a None coefficient is a
\* TypeError, reached only past the mean_stress <= 0 return
MorrowCorrection(amp, mean, material) ==
    IF Ambiguous(mean) THEN Raise("ValueError")
    ELSE IF FLe0(mean.data[1]) THEN amp
    ELSE IF material.fatigue_strength_coefficient = None THEN Raise("TypeError")
    ELSE Shaped(amp, mean,
            [i \in 1..Size(amp) |->
                MorrowFormula(amp.data[i], mean.data[1],
                              material.fatigue_strength_coefficient)])

Corrections == {"Goodman", "Gerber", "SWT", "Morrow"}

\* dynamic dispatch on the MeanStressCorrection instance
eq_stress_amplitude(c, amp, mean, material) ==
    CASE c = "Goodman" -> GoodmanCorrection(amp, mean, material)
      [] c = "Gerber" -> GerberCorrection(amp, mean, material)
      [] c = "SWT" -> SWTCorrection(amp, mean, material)
      [] c = "Morrow" -> MorrowCorrection(amp, mean, material)

(* data_parsing/fe_model.py *)

\* number of stress components per evaluation point
TensorWidth == 6

NoFE == [constructed |-> FALSE, element_id |-> <<>>, node_id |-> <<>>,
         node_coordinates |-> <<>>, stress_tensor |-> <<>>,
         connectivity |-> <<>>, node_element_map |-> <<>>]

\* a dict in insertion order: a sequence of <<key, value>> pairs, keys distinct
HasKey(d, k) == \E i \in 1..Len(d) : d[i][1] = k

\* self.node_element_map[node_id].append(element_id), the key created on
\* first use
MapAppend(d, node, element) ==
    IF HasKey(d, node)
    THEN [i \in 1..Len(d) |->
            IF d[i][1] = node THEN <<node, Append(d[i][2], element)>> ELSE d[i]]
    ELSE Append(d, <<node, <<element>>>>)

RECURSIVE MapNodes(_, _, _)
\* the inner loop of __post_init__ over one element's node list
MapNodes(d, element, nodes) ==
    IF nodes = <<>> THEN d
    ELSE MapNodes(MapAppend(d, Head(nodes), element), element, Tail(nodes))

RECURSIVE MapElements(_, _)
\* the outer loop of __post_init__ over connectivity.items()
MapElements(d, conn) ==
    IF conn = <<>> THEN d
    ELSE MapElements(MapNodes(d, Head(conn)[1], Head(conn)[2]), Tail(conn))

\* FEModel.__init__ and __post_init__: the shape validation is commented out,
\* every table is accepted
FEModelPostInit(elements, nodes, coords, table, conn) ==
    [constructed |-> TRUE, element_id |-> elements, node_id |-> nodes,
     node_coordinates |-> coords, stress_tensor |-> table,
     connectivity |-> conn, node_element_map |-> MapElements(<<>>, conn)]

Rows(t) == Len(t)
Width(t) == Len(t[1])

\* np.column_stack((table, col)): a 0-d or 1-d operand becomes one column of
\* as many rows as it has elements; the row counts must match (ValueError)
ColumnStackFails(t, col) == Size(col) # Rows(t)
column_stack(t, col) == [r \in 1..Rows(t) |-> Append(t[r], col.data[r])]

\* variant: a column is repeated over the rows instead of being refused
AddStressColumnBroadcasts(f, col) ==
    [f EXCEPT !.stress_tensor = [r \in 1..Rows(@) |-> Append(@[r], At(col, 1))]]

\* variant: the append also resets the node-element map
AddStressColumnClearsMap(f, col) ==
    IF ColumnStackFails(f.stress_tensor, col) THEN f
    ELSE [f EXCEPT !.stress_tensor = column_stack(@, col), !.node_element_map = <<>>]

\* FEModel.add_stress_column: the instance after the call
add_stress_column(f, col) ==
    IF ColumnStackFails(f.stress_tensor, col) THEN f
    ELSE [f EXCEPT !.stress_tensor = column_stack(@, col)]

(* core/stress_life/eq_stress_criterion.py, base_methods.py *)

Elements(t) == {t[r][c] : r \in 1..Rows(t), c \in 1..Width(t)}

\* ndarray.min() and .max() with no axis: one scalar over the whole table,
\* NaN when any element is NaN
TableMin(t) ==
    IF NaN \in Elements(t) THEN NaN
    ELSE CHOOSE x \in Elements(t) : \A y \in Elements(t) : x <= y
TableMax(t) ==
    IF NaN \in Elements(t) THEN NaN
    ELSE CHOOSE x \in Elements(t) : \A y \in Elements(t) : x >= y

\* MansonMcKnight.calculate_eq_stress
calculate_eq_stress(f, material, correction) ==
    LET min_stress == TableMin(f.stress_tensor)
        max_stress == TableMax(f.stress_tensor)
        mean == FDiv(FAdd(max_stress, min_stress), Num(2))
        amplitude == FDiv(FSub(max_stress, min_stress), Num(2))
        sigma_m == FSqrt(FMul(mean, mean))
        sigma_a == FSqrt(FMul(amplitude, amplitude))
    IN  eq_stress_amplitude(correction, Scalar(sigma_a), Scalar(sigma_m), material)

\* what StressInvariant.eq_stress raises, if anything: the criterion's
\* exception, or add_stress_column's
eq_stress_outcome(material, f, correction) ==
    LET r == calculate_eq_stress(f, material, correction)
    IN  IF ~r.ok THEN r
        ELSE IF ColumnStackFails(f.stress_tensor, r) THEN Raise("ValueError")
        ELSE Returned

\* StressInvariant.eq_stress: the FEModel after the call
eq_stress(material, f, correction) ==
    LET r == calculate_eq_stress(f, material, correction)
    IN  IF ~r.ok THEN f ELSE add_stress_column(f, r)

(* core/stress_life/eq_stress_criterion.py: manson_mcknight_criterion      *)
(* (stress_invariant_criterions.py holds the same function)                *)

\* one row of (min_stress_tensor + max_stress_tensor) / 2
MeanRow(lo, hi) == [i \in 1..TensorWidth |-> FDiv(FAdd(lo[i], hi[i]), Num(2))]
\* one row of (max_stress_tensor - min_stress_tensor) / 2
AmplitudeRow(lo, hi) == [i \in 1..TensorWidth |-> FDiv(FSub(hi[i], lo[i]), Num(2))]

Sq(x) == FMul(x, x)

\* sxx + syy + szz of one row
Hydrostatic(t) == FAdd(FAdd(t[1], t[2]), t[3])

\* 0.5 * np.sqrt(...) of one row; 0.5 * x is x / 2 exactly in binary floating
\* point
VonMises(t) ==
    FDiv(FSqrt(FAdd(FAdd(FAdd(Sq(FSub(t[1], t[2])), Sq(FSub(t[2], t[3]))),
                         Sq(FSub(t[3], t[1]))),
                    FMul(Num(6), FAdd(FAdd(Sq(t[4]), Sq(t[5])), Sq(t[6]))))),
         Num(2))

\* variant: the von Mises mean without its sign
SignedMeanUnsigned(lo, hi) == VonMises(MeanRow(lo, hi))

\* eq_mean_stress of one point: np.sign(hydrostatic_mean) * vm_mean
SignedMean(lo, hi) ==
    FMul(FSign(Hydrostatic(MeanRow(lo, hi))), VonMises(MeanRow(lo, hi)))

\* manson_mcknight_criterion: (eq_mean_stress, eq_amplitude_stress), each of
\* shape (n,)
manson_mcknight_criterion(min_t, max_t) ==
    [ok |-> TRUE, err |-> "", dim |-> 1,
     data |-> <<[i \in 1..Len(min_t) |-> SignedMean(min_t[i], max_t[i])],
                [i \in 1..Len(min_t) |->
                    VonMises(AmplitudeRow(min_t[i], max_t[i]))]>>]

(* Inputs *)

\* amplitudes, and mean stresses that are compressive, zero, and tensile
\* below, at and above UTS
AmpVals == {Num(-1), 0, Num(1), Num(3)}
MeanVals == {Num(-2), 0, Num(2), Num(4), Num(6)}

SeqsOf(S, n) == [1..n -> S]

\* the validated MaterialProperties instances of the runs
Materials ==
    {MaterialFields(Num(4), Num(3), Num(200), 30, fsc) : fsc \in {None, Num(8)}}

(* Calls of a mean stress correction on its own *)

NoArgs == [none |-> TRUE]
NoCalls == [eq_stress |-> 0, add_stress_column |-> 0]

InitCorrection ==
    /\ fe = NoFE
    /\ fe0 = NoFE
    /\ mat \in Materials
    /\ calls = NoCalls
    \* amplitude and mean stress of equal shape: two scalars, or two arrays
    \* of one length
    /\ \/ \E a \in AmpVals, m \in MeanVals :
            args = [amp |-> Scalar(a), mean |-> Scalar(m)]
       \/ \E n \in 1..MaxPoints :
            \E a \in SeqsOf(AmpVals, n), m \in SeqsOf(MeanVals, n) :
                args = [amp |-> Array(a), mean |-> Array(m)]
    /\ op = "init"
    /\ ret = NoRet

CallCorrection(c) ==
    /\ op = "init"
    /\ op' = c
    /\ ret' = eq_stress_amplitude(c, args.amp, args.mean, mat)
    /\ UNCHANGED <<fe, fe0, mat, calls, args>>

CallGoodman == CallCorrection("Goodman")
CallGerber == CallCorrection("Gerber")
CallSWT == CallCorrection("SWT")
CallMorrow == CallCorrection("Morrow")

NextCorrection == CallGoodman \/ CallGerber \/ CallSWT \/ CallMorrow

SpecCorrection == InitCorrection /\ [][NextCorrection]_vars

\* the formula of variant c past its floor, on one element
VariantFormula(c, a, m, material) ==
    CASE c = "Goodman" -> GoodmanFormula(a, m, material.ultimate_tensile_strength)
      [] c = "Gerber" -> GerberFormula(a, m, material.ultimate_tensile_strength)
      [] c = "SWT" -> SWTFormula(a, m)
      [] c = "Morrow" -> MorrowFormula(a, m, material.fatigue_strength_coefficient)

\* C1: every correction called with one amplitude and one mean stress <= 0
\* returns exactly the amplitude it was given.
C1_IdentityFloor ==
    (/\ op \in Corrections
     /\ Size(args.mean) = 1
     /\ FLe0(args.mean.data[1]))
    => (ret.ok /\ ret.data = args.amp.data)

\* C2: every correction called with arrays of equal length n >= 2 returns n
\* elements, element i being amplitude[i] when mean[i] <= 0 and the variant's
\* formula on element i otherwise; the call does not fail.
C2_ElementWise ==
    (/\ op \in Corrections
     /\ args.amp.dim = 1
     /\ Size(args.amp) >= 2
     /\ Size(args.mean) = Size(args.amp)
     /\ (op = "Morrow" => mat.fatigue_strength_coefficient # None))
    => /\ ret.ok
       /\ Size(ret) = Size(args.amp)
       /\ \A i \in 1..Size(args.amp) :
            ret.data[i] = IF FLe0(args.mean.data[i]) THEN args.amp.data[i]
                          ELSE VariantFormula(op, args.amp.data[i],
                                              args.mean.data[i], mat)

\* C9: Morrow called with a material that has no fatigue_strength_coefficient
\* raises for every amplitude and mean stress; it never returns a value.
C9_MorrowNeedsCoefficient ==
    (op = "Morrow" /\ mat.fatigue_strength_coefficient = None) => ~ret.ok

(* The objects of an analysis and the calls on them *)

TableVals == {Num(-2), Num(2), Num(10)}
TableWidths == {TensorWidth - 1, TensorWidth}

\* the stress tensor tables handed to FEModel: n rows of one width, two
\* values alternating
Tables ==
    {[r \in 1..n |-> [c \in 1..w |-> IF (r + c) % 2 = 0 THEN lo ELSE hi]] :
        n \in 1..MaxPoints, w \in TableWidths, lo \in TableVals, hi \in TableVals}

\* element id -> node ids, in insertion order
Connectivities ==
    {<<<<1, <<1, 2>>>>, <<2, <<2, 3>>>>>>,
     <<<<2, <<3, 3>>>>>>}

Keys(d) == [i \in 1..Len(d) |-> d[i][1]]

\* the columns handed to add_stress_column directly: one of each length
Columns == {Array([i \in 1..n |-> Num(i)]) : n \in 1..(MaxPoints + 1)}

Init ==
    /\ fe = NoFE
    /\ fe0 = NoFE
    /\ mat \in Materials
    /\ calls = NoCalls
    /\ args = NoArgs
    /\ op = "init"
    /\ ret = NoRet

\* FEModel(...)
NewFEModel ==
    /\ ~fe.constructed
    /\ \E t \in Tables, conn \in Connectivities :
        /\ fe' = FEModelPostInit(Keys(conn), <<1, 2, 3>>, <<>>, t, conn)
        /\ args' = [stress_tensor |-> t]
    /\ fe0' = fe'
    /\ ret' = Returned
    /\ op' = "FEModel"
    /\ UNCHANGED <<mat, calls>>

\* fe_model.add_stress_column(col)
AddStressColumn ==
    /\ fe.constructed
    /\ calls.eq_stress + calls.add_stress_column < MaxCalls
    /\ \E col \in Columns :
        /\ args' = [col |-> col]
        /\ fe' = add_stress_column(fe, col)
        /\ ret' = IF ColumnStackFails(fe.stress_tensor, col)
                  THEN Raise("ValueError") ELSE Returned
        /\ calls' = IF ColumnStackFails(fe.stress_tensor, col) THEN calls
                 ELSE [calls EXCEPT !.add_stress_column = @ + 1]
    /\ op' = "add_stress_column"
    /\ UNCHANGED <<fe0, mat>>

\* MansonMcKnight().calculate_eq_stress(fe, mat, correction)
CalculateEqStress ==
    /\ fe.constructed
    /\ \E c \in Corrections :
        /\ args' = [correction |-> c]
        /\ ret' = calculate_eq_stress(fe, mat, c)
    /\ op' = "calculate_eq_stress"
    /\ UNCHANGED <<fe, fe0, mat, calls>>

\* StressInvariant().eq_stress(mat, fe, MansonMcKnight(), correction)
EqStress ==
    /\ fe.constructed
    /\ calls.eq_stress + calls.add_stress_column < MaxCalls
    /\ \E c \in Corrections :
        /\ args' = [correction |-> c]
        /\ fe' = eq_stress(mat, fe, c)
        /\ ret' = eq_stress_outcome(mat, fe, c)
        /\ calls' = IF eq_stress_outcome(mat, fe, c).ok
                     THEN [calls EXCEPT !.eq_stress = @ + 1] ELSE calls
    /\ op' = "eq_stress"
    /\ UNCHANGED <<fe0, mat>>

Next ==
    \/ NewFEModel
    \/ AddStressColumn
    \/ CalculateEqStress
    \/ EqStress

Spec == Init /\ [][Next]_vars

Table == fe.stress_tensor
Table0 == fe0.stress_tensor

\* C4: calculate_eq_stress returns one value per evaluation point of the
\* table (the corrected Manson-McKnight amplitude of that point).
C4_OneValuePerPoint ==
    (op = "calculate_eq_stress" /\ ret.ok) => Size(ret) = Rows(Table)

\* C5: on a table that starts n by 6, every eq_stress call completes, and
\* after k of them the table is n by 6+k with the earlier columns unchanged.
C5_ColumnPerCall ==
    (fe.constructed /\ Width(Table0) = TensorWidth /\ calls.add_stress_column = 0)
    => /\ op = "eq_stress" => ret.ok
       /\ Rows(Table) = Rows(Table0)
       /\ \A r \in 1..Rows(Table) :
            /\ Len(Table[r]) = TensorWidth + calls.eq_stress
            /\ SubSeq(Table[r], 1, TensorWidth) = Table0[r]

\* C6: add_stress_column with a column of length n on an (n,6) table gives an
\* (n,7) table, the first 6 columns unchanged and the last holding the values
\* in order; with a column of another length the call fails and the table is
\* unchanged.
C6_AddStressColumn ==
    [][(op' = "add_stress_column" /\ Width(Table) = TensorWidth)
       => IF Size(args'.col) = Rows(Table)
          THEN /\ ret'.ok
               /\ Rows(fe'.stress_tensor) = Rows(Table)
               /\ \A r \in 1..Rows(Table) :
                    /\ Len(fe'.stress_tensor[r]) = TensorWidth + 1
                    /\ SubSeq(fe'.stress_tensor[r], 1, TensorWidth) = Table[r]
                    /\ fe'.stress_tensor[r][TensorWidth + 1] = args'.col.data[r]
          ELSE ~ret'.ok /\ fe'.stress_tensor = Table]_vars

\* a column of two values appended to a two-row table of 6 columns
C6_Witness ==
    /\ op = "add_stress_column"
    /\ ret.ok
    /\ Rows(Table) >= 2
    /\ Width(Table0) = TensorWidth
    /\ Width(Table) = TensorWidth + 1

\* C7: calculate_eq_stress leaves every field of the FE model unchanged,
\* whether it returns or raises; eq_stress changes the stress tensor table
\* and nothing else.
C7_CriterionReadsOnly ==
    [][/\ op' = "calculate_eq_stress" => fe' = fe
       /\ op' = "eq_stress" => fe' = [fe EXCEPT !.stress_tensor = fe'.stress_tensor]
      ]_vars

\* a criterion call that raised, made on a model an eq_stress call had widened
C7_Witness ==
    /\ op = "calculate_eq_stress"
    /\ ~ret.ok
    /\ calls.eq_stress > 0
    /\ Width(Table) = Width(Table0) + 1

\* C10: a table that is not 6 columns wide is refused: FEModel(...) on it
\* raises, and so does a criterion evaluated on it.
C10_OnlySixColumns ==
    /\ (op = "FEModel" /\ Width(args.stress_tensor) # TensorWidth) => ~ret.ok
    /\ (op = "calculate_eq_stress" /\ Width(Table) # TensorWidth) => ~ret.ok

\* sigma_m of calculate_eq_stress: the mean stress it hands to the correction
sigma_m(t) ==
    LET mean == FDiv(FAdd(TableMax(t), TableMin(t)), Num(2))
    IN  FSqrt(FMul(mean, mean))

\* mean_stress >= ultimate_tensile_strength, the range in which the Goodman
\* and Gerber quotients have a zero or negative denominator
MeanAtOrAboveUTS(t, material) ==
    ~IsNaN(sigma_m(t)) /\ sigma_m(t) >= material.ultimate_tensile_strength

\* an infinite or a negative equivalent stress amplitude
InfiniteOrNegative(x) == IsInf(x) \/ FLt0(x)

\* C11: when the mean stress handed to Goodman or Gerber is at or above the
\* ultimate tensile strength, calculate_eq_stress returns no infinite or
\* negative value and eq_stress appends none to the stress tensor table.
C11_RangeViolation ==
    [][(/\ op' \in {"calculate_eq_stress", "eq_stress"}
        /\ args'.correction \in {"Goodman", "Gerber"}
        /\ MeanAtOrAboveUTS(Table, mat))
       => /\ (op' = "calculate_eq_stress" /\ ret'.ok)
              => \A i \in 1..Size(ret') : ~InfiniteOrNegative(At(ret', i))
          /\ op' = "eq_stress"
              => \A r \in 1..Rows(Table) :
                    \A c \in (Len(Table[r]) + 1)..Len(fe'.stress_tensor[r]) :
                        ~InfiniteOrNegative(fe'.stress_tensor[r][c])]_vars

\* the number of positions of a list that hold x
Count(s, x) == Cardinality({i \in 1..Len(s) : s[i] = x})

\* d[k] of a dict, the empty list when k is not a key
Lookup(d, k) ==
    IF HasKey(d, k) THEN d[CHOOSE i \in 1..Len(d) : d[i][1] = k][2] ELSE <<>>

\* the ids found in the value lists of a dict
Listed(d) == UNION {{d[i][2][j] : j \in 1..Len(d[i][2])} : i \in 1..Len(d)}

\* C12: node_element_map is the exact inverse of connectivity: element e is
\* listed under node n iff n is in connectivity[e], each such element exactly
\* once, the keys are exactly the node ids found in some element's node list,
\* and add_stress_column and eq_stress calls leave the map as constructed.
C12_InverseOfConnectivity ==
    fe.constructed =>
        LET map == fe.node_element_map
            conn == fe.connectivity
            nodes == {Keys(map)[i] : i \in 1..Len(map)} \cup Listed(conn)
            elements == {Keys(conn)[i] : i \in 1..Len(conn)} \cup Listed(map)
        IN  /\ \A n \in nodes, e \in elements :
                /\ Count(Lookup(map, n), e) > 0 <=> Count(Lookup(conn, e), n) > 0
                /\ Count(Lookup(map, n), e) <= 1
            /\ \A n \in nodes : Count(Keys(map), n) = 1
            /\ {Keys(map)[i] : i \in 1..Len(map)} = Listed(conn)
            /\ map = fe0.node_element_map

(* The life of a MaterialProperties instance *)

MaterialArgs ==
    {MaterialFields(uts, ys, e, nu, fsc) :
        uts \in {Num(-4), 0, Num(4)}, ys \in {Num(-3), 0, Num(3)},
        e \in {Num(-200), 0, Num(200)}, nu \in {-30, 0, 30},
        fsc \in {None, Num(8)}}

InitMaterial ==
    /\ fe = NoFE
    /\ fe0 = NoFE
    /\ mat = NoMat
    /\ calls = NoCalls
    /\ args = NoArgs
    /\ op = "init"
    /\ ret = NoRet

\* MaterialProperties(...): the instance exists only when __post_init__ returns
NewMaterial ==
    /\ mat = NoMat
    /\ \E m \in MaterialArgs :
        /\ args' = m
        /\ IF MaterialPostInit(m) = ""
           THEN mat' = m /\ ret' = Returned
           ELSE mat' = mat /\ ret' = Raise(MaterialPostInit(m))
    /\ op' = "MaterialProperties"
    /\ UNCHANGED <<fe, fe0, calls>>

\* material.calc_shear_modulus()
CalcShearModulus ==
    /\ mat # NoMat
    /\ mat' = calc_shear_modulus(mat)
    /\ ret' = Scalar(calc_shear_modulus(mat).shear_modulus)
    /\ args' = NoArgs
    /\ op' = "calc_shear_modulus"
    /\ UNCHANGED <<fe, fe0, calls>>

\* a correction reads the instance
MaterialUsed ==
    /\ mat # NoMat
    /\ \E c \in Corrections :
        /\ args' = [correction |-> c]
        /\ ret' = eq_stress_amplitude(c, Scalar(Num(1)), Scalar(Num(2)), mat)
    /\ op' = "eq_stress_amplitude"
    /\ UNCHANGED <<fe, fe0, mat, calls>>

NextMaterial == NewMaterial \/ CalcShearModulus \/ MaterialUsed

SpecMaterial == InitMaterial /\ [][NextMaterial]_vars

NonPositive(m) ==
    \/ m.ultimate_tensile_strength <= 0
    \/ m.yield_strength <= 0
    \/ m.elastic_modulus <= 0
    \/ m.poisson_ratio <= 0

Normal(x, y, s) == <<x, y, y, s, 0, 0>>

\* the rows of a maximum tensor: pure hydrostatic, deviatoric with positive,
\* negative and zero hydrostatic sum, sheared, and rows whose squares overflow
MaxRows ==
    {Normal(x, y, 0) : x \in {Num(-2), Num(2), Num(200)},
                       y \in {Num(-2), Num(-1), Num(2), Num(-100), Num(200)}}
    \cup {<<0, 0, 0, Num(1), Num(2), Num(3)>>}
\* the rows of a minimum tensor; the last is so far below the maxima that
\* differences overflow
MinRows == {Normal(0, 0, 0), Normal(Num(2), Num(2), 0), Normal(Num(-300), Num(-300), 0)}

InitReduction ==
    /\ fe = NoFE
    /\ fe0 = NoFE
    /\ mat = NoMat
    /\ calls = NoCalls
    /\ \E n \in 1..MaxPoints :
        \E lo \in SeqsOf(MinRows, n), hi \in SeqsOf(MaxRows, n) :
            args = [min_stress_tensor |-> lo, max_stress_tensor |-> hi]
    /\ op = "init"
    /\ ret = NoRet

CallMansonMcKnight ==
    /\ op = "init"
    /\ op' = "manson_mcknight_criterion"
    /\ ret' = manson_mcknight_criterion(args.min_stress_tensor, args.max_stress_tensor)
    /\ UNCHANGED <<fe, fe0, mat, calls, args>>

NextReduction == CallMansonMcKnight

SpecReduction == InitReduction /\ [][NextReduction]_vars

Reduced == op = "manson_mcknight_criterion"
Points == 1..Len(args.min_stress_tensor)
MeanOf(i) == MeanRow(args.min_stress_tensor[i], args.max_stress_tensor[i])
EqMean(i) == ret.data[1][i]
EqAmplitude(i) == ret.data[2][i]

\* C3 as claimed: per point the amplitude is never negative, the sign of the
\* mean equals the sign of the hydrostatic sum of the mean tensor, and the
\* mean is exactly zero when that sum is exactly zero.
C3_SignOfHydrostatic ==
    Reduced =>
        \A i \in Points :
            /\ ~FLt0(EqAmplitude(i))
            /\ FSign(EqMean(i)) = FSign(Hydrostatic(MeanOf(i)))
            /\ (Hydrostatic(MeanOf(i)) = 0 => EqMean(i) = 0)

\* C3 amended: per point the amplitude is never negative; and whenever the
\* von Mises invariant of the mean tensor is finite, the mean is exactly zero
\* when the hydrostatic sum or that invariant is zero, and has the sign of
\* the hydrostatic sum otherwise.
C3_SignOfHydrostaticAmended ==
    Reduced =>
        \A i \in Points :
            /\ ~FLt0(EqAmplitude(i))
            /\ IsFinite(VonMises(MeanOf(i))) =>
                 IF Hydrostatic(MeanOf(i)) = 0 \/ VonMises(MeanOf(i)) = 0
                 THEN EqMean(i) = 0
                 ELSE FSign(EqMean(i)) = FSign(Hydrostatic(MeanOf(i)))

\* a deviatoric mean state under compression and a pure hydrostatic one,
\* reduced in one call
C3_Witness ==
    /\ Reduced
    /\ \E i \in Points : Hydrostatic(MeanOf(i)) < 0 /\ EqMean(i) < 0
    /\ \E i \in Points : Hydrostatic(MeanOf(i)) > 0 /\ EqMean(i) = 0

====
